---- MODULE Spec2Model ----
(***************************************************************************)
(* useUrlQuery / paramsObject (src/unnamed/part_006): the bracket-notation *)
(* query-string codec and the hook that keeps a query object in step with  *)
(* window.location.                                                        *)
(*                                                                         *)
(* Strings are sequences of one-character strings, so that trimming,       *)
(* tokenizing, number parsing and percent-encoding are computed character  *)
(* by character.  Numbers are kept as decimal digit sequences (sign,       *)
(* integer digits, fraction digits): 2^53 does not fit a machine integer   *)
(* of the checker.                                                         *)
(***************************************************************************)
EXTENDS Integers, Sequences, FiniteSets, TLC

\* ------------------------------------------------------------------------
\* Strings
\* ------------------------------------------------------------------------

\* A string literal as its sequence of characters.
Chars(s) == [i \in 1..Len(s) |-> SubSeq(s, i, i)]

Digits == {"0", "1", "2", "3", "4", "5", "6", "7", "8", "9"}

\* The characters String.prototype.trim removes (those of the model's alphabet).
WhiteSpace == {" "}

DigitVal(c) ==
  CASE c = "0" -> 0 [] c = "1" -> 1 [] c = "2" -> 2 [] c = "3" -> 3 [] c = "4" -> 4
    [] c = "5" -> 5 [] c = "6" -> 6 [] c = "7" -> 7 [] c = "8" -> 8 [] c = "9" -> 9

DigitChar(d) ==
  CASE d = 0 -> "0" [] d = 1 -> "1" [] d = 2 -> "2" [] d = 3 -> "3" [] d = 4 -> "4"
    [] d = 5 -> "5" [] d = 6 -> "6" [] d = 7 -> "7" [] d = 8 -> "8" [] d = 9 -> "9"

\* /^\d+$/.test(s)
IsDigits(s) == Len(s) > 0 /\ \A i \in 1..Len(s) : s[i] \in Digits

\* value.trim(): from the first to the last character that is no white space.
TrimNothing(s) == s
Trim(s) ==
  LET keep == { i \in 1..Len(s) : s[i] \notin WhiteSpace } IN
  IF keep = {} THEN <<>>
  ELSE SubSeq(s, CHOOSE i \in keep : \A j \in keep : i <= j,
                 CHOOSE i \in keep : \A j \in keep : j <= i)

\* Decimal digits without leading zeros ("0" for zero).
StripLeadingZeros(ds) ==
  LET nz == { i \in 1..Len(ds) : ds[i] # "0" } IN
  IF nz = {} THEN (IF ds = <<>> THEN <<>> ELSE <<"0">>)
  ELSE SubSeq(ds, CHOOSE i \in nz : \A j \in nz : i <= j, Len(ds))

\* Fraction digits without trailing zeros.
StripTrailingZeros(ds) ==
  LET nz == { i \in 1..Len(ds) : ds[i] # "0" } IN
  IF nz = {} THEN <<>>
  ELSE SubSeq(ds, 1, CHOOSE i \in nz : \A j \in nz : j <= i)

\* a <= b for digit sequences without leading zeros.
LeqDigits(a, b) ==
  \/ Len(a) < Len(b)
  \/ /\ Len(a) = Len(b)
     /\ \/ a = b
        \/ \E i \in 1..Len(a) :
             /\ DigitVal(a[i]) < DigitVal(b[i])
             /\ \A j \in 1..(i - 1) : a[j] = b[j]

\* The value of a digit sequence of at most nine digits.
RECURSIVE DigitsToNat(_)
DigitsToNat(ds) ==
  IF ds = <<>> THEN 0
  ELSE 10 * DigitsToNat(SubSeq(ds, 1, Len(ds) - 1)) + DigitVal(ds[Len(ds)])

\* String(n) for a natural number n.
RECURSIVE NatToDigits(_)
NatToDigits(n) ==
  IF n < 10 THEN <<DigitChar(n)>> ELSE NatToDigits(n \div 10) \o <<DigitChar(n % 10)>>

\* ------------------------------------------------------------------------
\* Values of the tree
\* ------------------------------------------------------------------------

\* Scalars.
Str(s)  == [t |-> "str", s |-> s]
Bool(b) == [t |-> "bool", b |-> b]
Null    == [t |-> "null"]
Undef   == [t |-> "undef"]
\* A finite number: sign, integer digits (no leading zeros), fraction digits
\* (no trailing zeros).
Num(neg, int, frac) == [t |-> "num", neg |-> neg, int |-> int, frac |-> frac]
NumOf(n) == Num(FALSE, NatToDigits(n), <<>>)

\* Containers.  An object keeps its own properties as entries in insertion
\* order.  An array keeps its index properties in el (a function on the indices
\* that are present: a sparse array has holes), its length, and its own
\* non-index properties as entries.
Obj(ents) == [t |-> "obj", ents |-> ents]
Arr(len, el, ents) == [t |-> "arr", len |-> len, el |-> el, ents |-> ents]
EmptyObj == Obj(<<>>)
EmptyArr == Arr(0, <<>>, <<>>)
Ent(k, v) == [k |-> k, v |-> v]

IsContainer(v) == v.t \in {"obj", "arr"}

\* JavaScript truthiness of a value (!v is its negation).
Truthy(v) ==
  CASE v.t = "str"  -> v.s # <<>>
    [] v.t = "bool" -> v.b
    [] v.t = "num"  -> ~(v.int = <<"0">> /\ v.frac = <<>>)
    [] v.t \in {"null", "undef"} -> FALSE
    [] OTHER -> TRUE

\* ------------------------------------------------------------------------
\* convertValue: the scalar inferencer
\* ------------------------------------------------------------------------

\* value.length > 1000
MaxValueLength == 1000

\* Number.MAX_SAFE_INTEGER = 2^53 - 1
MaxSafeInteger == Chars("9007199254740991")

NaN == [k |-> "nan"]
Infinite(neg) == [k |-> "inf", neg |-> neg]
Finite(neg, int, frac) == [k |-> "fin", neg |-> neg, int |-> int, frac |-> frac]

\* The unsigned part of a StrDecimalLiteral without exponent:
\* Infinity, digits, digits. , digits.digits , .digits
UnsignedNumber(neg, s) ==
  IF s = Chars("Infinity") THEN Infinite(neg)
  ELSE
    LET dots == {i \in 1..Len(s) : s[i] = "."}
        dot  == IF dots = {} THEN Len(s) + 1 ELSE CHOOSE i \in dots : \A j \in dots : i <= j
        ip   == SubSeq(s, 1, dot - 1)
        fp   == SubSeq(s, dot + 1, Len(s))
    IN  IF /\ \A i \in 1..Len(ip) : ip[i] \in Digits
           /\ \A i \in 1..Len(fp) : fp[i] \in Digits
           /\ Len(ip) + Len(fp) > 0
          THEN Finite(neg,
                      IF ip = <<>> THEN <<"0">> ELSE StripLeadingZeros(ip),
                      StripTrailingZeros(fp))
          ELSE NaN

\* Number(trimmed) for a trimmed, non-empty string: a decimal literal with an
\* optional sign.  (Exponents and the 0x/0o/0b forms are not part of the
\* model's alphabet.)
ToNumber(s) ==
  IF Head(s) = "-" THEN UnsignedNumber(TRUE, Tail(s))
  ELSE IF Head(s) = "+" THEN UnsignedNumber(FALSE, Tail(s))
  ELSE UnsignedNumber(FALSE, s)

\* Number.isSafeInteger(num)
IsSafeIntegerAnyFinite(n) == n.k = "fin"
IsSafeIntegerUpTo2Pow53(n) ==
  n.k = "fin" /\ n.frac = <<>> /\ LeqDigits(n.int, Chars("9007199254740992"))
IsSafeInteger(n) ==
  n.k = "fin" /\ n.frac = <<>> /\ LeqDigits(n.int, MaxSafeInteger)

convertValueBelowLimit(value) ==
  IF Len(value) >= MaxValueLength THEN Str(value)
  ELSE
    LET trimmed == Trim(value) IN
    IF trimmed = <<>> THEN Str(<<>>)
    ELSE
      LET num == ToNumber(trimmed) IN
      IF num.k # "nan"
        THEN IF IsSafeInteger(num) THEN Num(num.neg, num.int, num.frac) ELSE Str(trimmed)
      ELSE IF trimmed = Chars("true") THEN Bool(TRUE)
      ELSE IF trimmed = Chars("false") THEN Bool(FALSE)
      ELSE IF trimmed = Chars("null") THEN Null
      ELSE IF trimmed = Chars("undefined") THEN Undef
      ELSE Str(trimmed)
convertValue(value) ==
  IF Len(value) > MaxValueLength THEN Str(value)
  ELSE
    LET trimmed == Trim(value) IN
    IF trimmed = <<>> THEN Str(<<>>)
    ELSE
      LET num == ToNumber(trimmed) IN
      IF num.k # "nan"
        THEN IF IsSafeInteger(num) THEN Num(num.neg, num.int, num.frac) ELSE Str(trimmed)
      ELSE IF trimmed = Chars("true") THEN Bool(TRUE)
      ELSE IF trimmed = Chars("false") THEN Bool(FALSE)
      ELSE IF trimmed = Chars("null") THEN Null
      ELSE IF trimmed = Chars("undefined") THEN Undef
      ELSE Str(trimmed)

\* ------------------------------------------------------------------------
\* parsePath: the path tokenizer
\* ------------------------------------------------------------------------

RECURSIVE ParseFrom(_, _, _, _)
ParseFrom(path, i, result, current) ==
  IF i > Len(path)
    THEN IF current # <<>> THEN Append(result, current) ELSE result
  ELSE IF path[i] \in {"[", "]"}
    THEN IF current # <<>>
           THEN ParseFrom(path, i + 1, Append(result, current), <<>>)
           ELSE ParseFrom(path, i + 1, result, current)
  ELSE ParseFrom(path, i + 1, result, Append(current, path[i]))

parsePathWhole(path) == IF path = <<>> THEN <<>> ELSE <<path>>
parsePathReversed(path) ==
  LET result == ParseFrom(path, 1, <<>>, <<>>)
  IN  [n \in 1..Len(result) |-> result[Len(result) + 1 - n]]
parsePath(path) == ParseFrom(path, 1, <<>>, <<>>)

\* ------------------------------------------------------------------------
\* Own properties of objects, arrays and string primitives
\* ------------------------------------------------------------------------

ProtoKey == Chars("__proto__")

EntIndex(ents, k) ==
  IF \E i \in 1..Len(ents) : ents[i].k = k
    THEN CHOOSE i \in 1..Len(ents) : ents[i].k = k
    ELSE 0

SetEntKeepFirst(ents, k, v) ==
  IF EntIndex(ents, k) > 0 THEN ents ELSE Append(ents, Ent(k, v))
SetEnt(ents, k, v) ==
  IF EntIndex(ents, k) > 0
    THEN [ents EXCEPT ![EntIndex(ents, k)] = Ent(k, v)]
    ELSE Append(ents, Ent(k, v))

\* A property name that is an array index: a canonical decimal numeral (the
\* model's index segments have at most nine digits).
IsArrayIndex(k) == IsDigits(k) /\ StripLeadingZeros(k) = k /\ Len(k) <= 9

HasOwn(node, k) ==
  CASE node.t = "obj" -> EntIndex(node.ents, k) > 0
    [] node.t = "arr" ->
         IF IsArrayIndex(k) THEN DigitsToNat(k) \in DOMAIN node.el
         ELSE EntIndex(node.ents, k) > 0
    [] node.t = "str" -> IsArrayIndex(k) /\ DigitsToNat(k) < Len(node.s)
    [] OTHER -> FALSE

GetOwn(node, k) ==
  CASE node.t = "obj" -> node.ents[EntIndex(node.ents, k)].v
    [] node.t = "arr" ->
         IF IsArrayIndex(k) THEN node.el[DigitsToNat(k)]
         ELSE node.ents[EntIndex(node.ents, k)].v
    [] node.t = "str" -> Str(<<node.s[DigitsToNat(k) + 1]>>)

\* node[k] = v on a container, as an own property.
SetOwn(node, k, v) ==
  IF node.t = "obj" THEN Obj(SetEnt(node.ents, k, v))
  ELSE IF IsArrayIndex(k)
    THEN LET idx == DigitsToNat(k) IN
         Arr(IF idx + 1 > node.len THEN idx + 1 ELSE node.len,
             [j \in (DOMAIN node.el) \cup {idx} |-> IF j = idx THEN v ELSE node.el[j]],
             node.ents)
    ELSE Arr(node.len, node.el, SetEnt(node.ents, k, v))

RECURSIVE NodeAt(_, _)
NodeAt(node, path) ==
  IF path = <<>> THEN node ELSE NodeAt(GetOwn(node, Head(path)), Tail(path))

RECURSIVE PutAt(_, _, _)
PutAt(node, path, v) ==
  IF path = <<>> THEN v
  ELSE IF Len(path) = 1 THEN SetOwn(node, Head(path), v)
  ELSE SetOwn(node, Head(path), PutAt(GetOwn(node, Head(path)), Tail(path), v))

\* ------------------------------------------------------------------------
\* paramsObject: the tree builder
\*
\* The heap a decode call works on has two roots: obj, the fresh object the
\* call returns, and proto, the own properties that decode calls have added
\* to Object.prototype, which every object, array and primitive inherits.
\* `current` is a reference: a container at a path under a root, or a
\* primitive value.
\* ------------------------------------------------------------------------

\* idx >= 0 && idx < 10000
MaxArrayIndex == 10000

Loc(root, path) == [r |-> "loc", root |-> root, path |-> path]
Val(v) == [r |-> "val", v |-> v]
Unmodelled == [r |-> "unmodelled"]

RefOf(v, root, path) == IF IsContainer(v) THEN Loc(root, path) ELSE Val(v)

Target(heap, cur) == IF cur.r = "loc" THEN NodeAt(heap[cur.root], cur.path) ELSE cur.v

\* current[k], read through the prototype chain.
Get(heap, cur, k) ==
  LET node == Target(heap, cur) IN
  IF HasOwn(node, k)
    THEN IF cur.r = "loc"
           THEN RefOf(GetOwn(node, k), cur.root, Append(cur.path, k))
           ELSE Val(GetOwn(node, k))
  ELSE IF k = ProtoKey
    THEN IF cur = Loc("proto", <<>>) THEN Val(Null)             \* Object.prototype.__proto__
         ELSE IF node.t = "obj" THEN Loc("proto", <<>>)         \* Object.prototype
         ELSE Unmodelled                                        \* Array.prototype, String.prototype, ...
  ELSE IF HasOwn(heap.proto, k)
    THEN RefOf(GetOwn(heap.proto, k), "proto", <<k>>)
  ELSE Val(Undef)

RefTruthy(ref) == ref.r = "loc" \/ (ref.r = "val" /\ Truthy(ref.v))

Outcome(heap, cur, status) == [heap |-> heap, cur |-> cur, status |-> status]

\* for (let i = 0; i < keys.length - 1; i++) { ... }
\* The module is strict-mode code: an assignment to a property of a primitive
\* throws a TypeError, and so does setting the prototype of Object.prototype.
RECURSIVE Navigate(_, _, _, _)
Navigate(heap, keys, i, cur) ==
  IF i > Len(keys) - 1 THEN Outcome(heap, cur, "ok")
  ELSE
    LET k   == keys[i]
        got == Get(heap, cur, k)
    IN
    IF got.r = "unmodelled" THEN Outcome(heap, cur, "unmodelled")
    ELSE IF RefTruthy(got) THEN Navigate(heap, keys, i + 1, got)
    ELSE IF cur.r = "val" \/ k = ProtoKey THEN Outcome(heap, cur, "throw")
    ELSE
      LET fresh == IF IsDigits(keys[i + 1]) THEN EmptyArr ELSE EmptyObj
          path  == Append(cur.path, k)
      IN Navigate([heap EXCEPT ![cur.root] = PutAt(@, path, fresh)],
                  keys, i + 1, Loc(cur.root, path))

\* parseInt(finalKey, 10) in 0..9999, for a digit-only finalKey.
IndexInRangeAboveZero(finalKey) ==
  LET ds == StripLeadingZeros(finalKey) IN
  Len(ds) <= 5 /\ DigitsToNat(ds) < MaxArrayIndex /\ DigitsToNat(ds) > 0
IndexInRange(finalKey) ==
  LET ds == StripLeadingZeros(finalKey) IN
  Len(ds) <= 5 /\ DigitsToNat(ds) < MaxArrayIndex

\* The final value is set.
SetFinalNoArrayCheck(heap, cur, finalKey, v) ==
  IF cur.r = "val" THEN Outcome(heap, cur, "throw")
  ELSE IF IsDigits(finalKey) /\ ~IndexInRange(finalKey) THEN Outcome(heap, cur, "ok")
  ELSE Outcome([heap EXCEPT ![cur.root] =
                  PutAt(@, Append(cur.path, StripLeadingZeros(finalKey)), v)],
               cur, "ok")
SetFinal(heap, cur, finalKey, v) ==
  IF IsDigits(finalKey)
    THEN IF IndexInRange(finalKey) /\ cur.r = "loc" /\ Target(heap, cur).t = "arr"
           THEN Outcome([heap EXCEPT ![cur.root] =
                           PutAt(@, Append(cur.path, StripLeadingZeros(finalKey)), v)],
                        cur, "ok")
           \* otherwise the index is ignored, or the value lands in a fresh
           \* array that nothing refers to
           ELSE Outcome(heap, cur, "ok")
  ELSE IF cur.r = "val" THEN Outcome(heap, cur, "throw")
  ELSE IF finalKey = ProtoKey
    THEN IF v = Null /\ cur # Loc("proto", <<>>)
           THEN Outcome(heap, cur, "unmodelled")    \* the prototype becomes null
           ELSE Outcome(heap, cur, "ok")            \* the __proto__ setter ignores other scalars
  ELSE Outcome([heap EXCEPT ![cur.root] = PutAt(@, Append(cur.path, finalKey), v)],
               cur, "ok")

\* keys[keys.length - 1]; of an empty list it is undefined, which as a
\* property name (and under the digit test) is the string "undefined".
FinalKey(keys) == IF keys = <<>> THEN Chars("undefined") ELSE keys[Len(keys)]

\* The callback of params.forEach for one pair.
ForEachCallback(heap, pair) ==
  LET keys == parsePath(pair.key)
      nav  == Navigate(heap, keys, 1, Loc("obj", <<>>))
  IN IF nav.status # "ok" THEN nav
     ELSE SetFinal(nav.heap, nav.cur, FinalKey(keys), convertValue(pair.value))

Pair(key, value) == [key |-> key, value |-> value]

\* paramsObject(params), given the properties Object.prototype holds when it
\* is called: the callback for each pair in order, until one throws.
RECURSIVE ForEachFrom(_, _, _)
ForEachFrom(params, n, heap) ==
  IF n > Len(params) THEN [obj |-> heap.obj, proto |-> heap.proto, status |-> "ok"]
  ELSE LET out == ForEachCallback(heap, params[n]) IN
       IF out.status # "ok"
         THEN [obj |-> out.heap.obj, proto |-> out.heap.proto, status |-> out.status]
         ELSE ForEachFrom(params, n + 1, out.heap)

paramsObject(params, proto) == ForEachFrom(params, 1, [obj |-> EmptyObj, proto |-> proto])

\* ------------------------------------------------------------------------
\* addToParams: the encoder of setQuery
\* ------------------------------------------------------------------------

\* String(value) of a scalar leaf (numbers below 1e21 and without exponent).
StringOf(v) ==
  CASE v.t = "str"  -> v.s
    [] v.t = "bool" -> IF v.b THEN Chars("true") ELSE Chars("false")
    [] v.t = "num"  ->
         (IF v.neg /\ ~(v.int = <<"0">> /\ v.frac = <<>>) THEN <<"-">> ELSE <<>>)
         \o v.int
         \o (IF v.frac = <<>> THEN <<>> ELSE <<".">> \o v.frac)

\* params.set(name, value): the first pair of that name gets the value and
\* the others are removed; a new name is appended.
ParamsSet(params, name, value) ==
  IF \E i \in 1..Len(params) : params[i].key = name
    THEN LET first == CHOOSE i \in 1..Len(params) :
                        /\ params[i].key = name
                        /\ \A j \in 1..(i - 1) : params[j].key # name
             kept  == { i \in 1..Len(params) : i = first \/ params[i].key # name }
         IN [i \in 1..Len(params) |-> IF i = first THEN Pair(name, value) ELSE params[i]]
         \* (set is the only writer, so no name occurs twice and kept is every index)
    ELSE Append(params, Pair(name, value))

\* The numbers of a finite set in ascending order.
RECURSIVE Ascending(_)
Ascending(S) ==
  IF S = {} THEN <<>>
  ELSE LET m == CHOOSE x \in S : \A y \in S : x <= y IN <<m>> \o Ascending(S \ {m})

\* Object.entries(value): the index-like names in ascending order, then the
\* other names in insertion order.
Entries(ents) ==
  LET idxs  == { DigitsToNat(ents[i].k) : i \in { j \in 1..Len(ents) : IsArrayIndex(ents[j].k) } }
      order == Ascending(idxs)
  IN [n \in 1..Len(order) |-> ents[EntIndex(ents, NatToDigits(order[n]))]]
     \o SelectSeq(ents, LAMBDA e : ~IsArrayIndex(e.k))

\* `${prefix}[${idx}]`
ArrayPrefixNoIndex(prefix, idx) == prefix \o <<"[", "]">>
ArrayPrefix(prefix, idx) == prefix \o <<"[">> \o NatToDigits(idx) \o <<"]">>

\* prefix ? `${prefix}[${key}]` : key
ObjectPrefixNoBrackets(prefix, key) == prefix \o key
ObjectPrefix(prefix, key) ==
  IF prefix # <<>> THEN prefix \o <<"[">> \o key \o <<"]">> ELSE key

RECURSIVE addToParams(_, _, _), AddItems(_, _, _, _), AddEntries(_, _, _, _)
addToParams(value, prefix, params) ==
  CASE value.t \in {"null", "undef"} -> params
    [] value.t = "arr" -> AddItems(value, Ascending(DOMAIN value.el), prefix, params)
    [] value.t = "obj" -> AddEntries(Entries(value.ents), 1, prefix, params)
    [] OTHER -> ParamsSet(params, prefix, StringOf(value))

\* value.forEach((item, idx) => ...): the holes of the array are skipped.
AddItems(value, idxs, prefix, params) ==
  IF idxs = <<>> THEN params
  ELSE AddItems(value, Tail(idxs), prefix,
                addToParams(value.el[Head(idxs)], ArrayPrefix(prefix, Head(idxs)), params))

\* Object.entries(value).forEach(([key, val]) => ...)
AddEntries(ents, n, prefix, params) ==
  IF n > Len(ents) THEN params
  ELSE AddEntries(ents, n + 1, prefix,
                  addToParams(ents[n].v, ObjectPrefix(prefix, ents[n].k), params))

\* ------------------------------------------------------------------------
\* The query string: URLSearchParams.toString() and new URLSearchParams(search)
\* (application/x-www-form-urlencoded, over the model's alphabet: letters,
\* digits, space and the characters listed here)
\* ------------------------------------------------------------------------

\* The percent-encoded form of one character of a name or value.
EncodeChar(c) ==
  CASE c = " " -> <<"+">>
    [] c = "[" -> Chars("%5B")
    [] c = "]" -> Chars("%5D")
    [] c = "+" -> Chars("%2B")
    [] c = "=" -> Chars("%3D")
    [] c = "&" -> Chars("%26")
    [] c = "%" -> Chars("%25")
    [] c = "#" -> Chars("%23")
    [] c = "?" -> Chars("%3F")
    [] OTHER   -> <<c>>          \* alphanumerics and * - . _

RECURSIVE EncodeString(_)
EncodeString(str) ==
  IF str = <<>> THEN <<>> ELSE EncodeChar(Head(str)) \o EncodeString(Tail(str))

\* params.toString(): name=value joined by &.
RECURSIVE Serialize(_)
Serialize(params) ==
  IF params = <<>> THEN <<>>
  ELSE EncodeString(params[1].key) \o <<"=">> \o EncodeString(params[1].value)
       \o (IF Len(params) > 1 THEN <<"&">> \o Serialize(Tail(params)) ELSE <<>>)

Escapes == {"[", "]", "+", "=", "&", "%", "#", "?"}

\* + is a space and %XX is the character it encodes.
RECURSIVE DecodeString(_)
DecodeString(str) ==
  IF str = <<>> THEN <<>>
  ELSE IF Head(str) = "+" THEN <<" ">> \o DecodeString(Tail(str))
  ELSE IF Head(str) = "%" /\ Len(str) >= 3
          /\ \E c \in Escapes : EncodeChar(c) = SubSeq(str, 1, 3)
    THEN <<CHOOSE c \in Escapes : EncodeChar(c) = SubSeq(str, 1, 3)>>
         \o DecodeString(SubSeq(str, 4, Len(str)))
  ELSE <<Head(str)>> \o DecodeString(Tail(str))

\* The pieces of str between the occurrences of sep.
RECURSIVE Split(_, _)
Split(str, sep) ==
  IF \E i \in 1..Len(str) : str[i] = sep
    THEN LET at == CHOOSE i \in 1..Len(str) :
                     str[i] = sep /\ \A j \in 1..(i - 1) : str[j] # sep
         IN <<SubSeq(str, 1, at - 1)>> \o Split(SubSeq(str, at + 1, Len(str)), sep)
    ELSE <<str>>

\* One name=value piece: split at the first =, both sides decoded.
ParsePiece(piece) ==
  LET parts == Split(piece, "=")
      name  == parts[1]
      value == SubSeq(piece, Len(name) + 2, Len(piece))
  IN Pair(DecodeString(name), DecodeString(value))

\* new URLSearchParams(window.location.search): a leading ? is dropped, the
\* rest is split at &, empty pieces are skipped.
ParseSearch(search) ==
  LET body   == IF search # <<>> /\ Head(search) = "?" THEN Tail(search) ELSE search
      pieces == SelectSeq(Split(body, "&"), LAMBDA piece : piece # <<>>)
  IN [i \in 1..Len(pieces) |-> ParsePiece(pieces[i])]

\* ------------------------------------------------------------------------
\* useUrlQuery: the hook
\* ------------------------------------------------------------------------

Location(pathname, search, hash) == [pathname |-> pathname, search |-> search, hash |-> hash]

\* window.location.href (the origin is the same throughout and left out)
HrefWithoutSearch(loc) == loc.pathname \o loc.hash
Href(loc) == loc.pathname \o loc.search \o loc.hash

\* { ...target, ...source }: the own properties of source, in the order of
\* Object.entries, set on target.
RECURSIVE SpreadFrom(_, _, _)
SpreadFrom(target, ents, n) ==
  IF n > Len(ents) THEN target
  ELSE SpreadFrom(Obj(SetEnt(target.ents, ents[n].k, ents[n].v)), ents, n + 1)

Spread(target, source) == SpreadFrom(target, Entries(source.ents), 1)

\* The query of the hook: the parsed params, merged over the defaults.
MergeOnlyWhenNoParams(defaultValue, parsed) ==
  IF defaultValue # Undef /\ parsed.ents = <<>> THEN defaultValue ELSE parsed
Merge(defaultValue, parsed) ==
  IF defaultValue # Undef
    THEN Spread(Spread(EmptyObj, defaultValue), parsed)
    ELSE parsed

\* The memos of one render: searchParams and pathname from window.location,
\* query from searchParams and the defaults.  A decoder that throws takes the
\* component down.
Memos(hook, loc, params, dec) ==
  [hook |-> IF dec.status = "ok"
              THEN [hook EXCEPT !.searchParams = params,
                                !.pathname = loc.pathname,
                                !.query = Merge(hook.defaultValue, dec.obj)]
              ELSE [hook EXCEPT !.status = IF dec.status = "throw" THEN "crashed"
                                           ELSE "unmodelled"],
   proto |-> dec.proto]

Render(hook, loc, proto) ==
  Memos(hook, loc, ParseSearch(loc.search), paramsObject(ParseSearch(loc.search), proto))

\* setUrl(window.location.href): a new value renders the hook again, the
\* same value does not.
SetUrlSkipped(hook, loc, proto) == [hook |-> hook, proto |-> proto]
SetUrl(hook, loc, proto) ==
  IF hook.status # "mounted" \/ hook.url = Href(loc)
    THEN [hook |-> hook, proto |-> proto]
    ELSE Render([hook EXCEPT !.url = Href(loc)], loc, proto)

\* useUrlQuery(defaultValue) is mounted: url from window.location.href, and
\* the first render.
Mount(defaultValue, loc, proto) ==
  Render([url |-> Href(loc), searchParams |-> <<>>, pathname |-> loc.pathname,
          defaultValue |-> defaultValue, query |-> EmptyObj, status |-> "mounted"],
         loc, proto)

\* Without a window (server-side rendering): url is '', searchParams is
\* empty and pathname is ''.
MountWithoutWindowNoDefaults(defaultValue) ==
  [url |-> <<>>, searchParams |-> <<>>, pathname |-> <<>>,
   defaultValue |-> defaultValue, query |-> EmptyObj, status |-> "mounted"]
MountWithoutWindow(defaultValue) ==
  [url |-> <<>>, searchParams |-> <<>>, pathname |-> <<>>,
   defaultValue |-> defaultValue,
   query |-> Merge(defaultValue, paramsObject(<<>>, EmptyObj).obj),
   status |-> "mounted"]

\* The URL setQuery navigates to: the memoised pathname, with the encoded
\* query after a ? when there is one.  A relative URL without a fragment:
\* the new location has no hash.
AfterPathAlways(queryString) == <<"?">> \o queryString
AfterPath(queryString) ==
  IF queryString # <<>> THEN <<"?">> \o queryString ELSE <<>>

NewUrl(pathname, query) ==
  IF query = Null THEN Location(pathname, <<>>, <<>>)
  ELSE Location(pathname, AfterPath(Serialize(addToParams(query, <<>>, <<>>))), <<>>)

\* window.history.pushState({}, '', newUrl): the entries after the current
\* one are dropped and the new one is added.
PushStateInPlace(hist, pos, loc) == [hist EXCEPT ![pos] = loc]
PushState(hist, pos, loc) == Append(SubSeq(hist, 1, pos), loc)

\* window.history.replaceState({}, '', newUrl)
ReplaceState(hist, pos, loc) == [hist EXCEPT ![pos] = loc]

\* ------------------------------------------------------------------------
\* State
\* ------------------------------------------------------------------------

VARIABLES
  input,        \* the pairs of the URLSearchParams being decoded
  done,         \* how many of them forEach has passed to the callback
  obj,          \* const obj: the tree under construction
  objectProto,  \* the own properties added to Object.prototype
  pc,           \* "encode", "run", "returned", "thrown" (or "unmodelled")
  newQuery,     \* the tree handed to the encoder
  calls,        \* the decode calls that have ended: input, outcome, tree
  hasWindow,    \* typeof window !== 'undefined'
  location,     \* window.location: pathname, search, hash
  history,      \* the entries of the session history
  position,     \* the index of the current entry
  hooks,        \* the mounted useUrlQuery instances
  lastOp,       \* the last event: a setQuery call or a popstate
  callers       \* the hooks whose setQuery has been called

codecVars == <<input, done, obj, pc, newQuery, calls>>
pageVars == <<hasWindow, location, history, position, hooks, lastOp, callers>>
vars == <<input, done, obj, objectProto, pc, newQuery, calls,
          hasWindow, location, history, position, hooks, lastOp, callers>>

SeqsUpTo(S, n) == UNION { [1..m -> S] : m \in 0..n }

\* ------------------------------------------------------------------------
\* Inputs
\* ------------------------------------------------------------------------

\* The pairs of one decode call.
MaxPairs == 2

\* Keys: `__proto__` is the only name of an inherited property among the
\* segments, and it occurs as a first segment only; index segments have at
\* most nine digits.
Keys ==
  { Chars("a"), Chars("a[b]"), Chars("a[b][c]"), Chars("a[0]"), Chars("a[5]"),
    Chars("a[9999]"), Chars("a[10000]"), Chars("a[99999][b]"), Chars("5"), <<>>,
    Chars("__proto__[a]"), Chars("__proto__[a][c]") }

\* A truthy and a falsy leaf.
Values == { Chars("hello"), Chars("0") }

Pairs == { Pair(k, v) : k \in Keys, v \in Values }

\* Longer decode calls over fewer keys: a scalar, a field and an index at the
\* same first segment.
MaxKindPairs == 3

KindKeys == { Chars("a"), Chars("a[b]"), Chars("a[0]") }

KindPairs == { Pair(k, v) : k \in KindKeys, v \in Values }

\* Raw values for the scalar inferencer: every string over RawAlphabet of at
\* most MaxRawLen characters, and the literals the tests and the documentation
\* name.  No value has an exponent or a 0x/0o/0b prefix.
MaxRawLen == 2

RawAlphabet == {"0", "7", ".", "-", " ", "t"}

Repeat(c, n) == [i \in 1..n |-> c]

NamedRaw ==
  { Chars("29.99"), Chars("42"), Chars("-42"), Chars("+5"), Chars("007"), Chars(" 42 "),
    Chars("0.5"), Chars("12.50"), Chars("5.0"),
    Chars("9007199254740991"), Chars("9007199254740992"),
    Chars("-9007199254740991"), Chars("-9007199254740992"),
    Chars("999999999999999999999999"),
    Chars("true"), Chars("false"), Chars("null"), Chars("undefined"),
    Chars("True"), Chars(" true "), Chars("hello"), Chars("John"),
    Chars("FALSE"), Chars("Null"), Chars("Undefined"), Chars("tru"),
    Chars("false "), Chars(" null"), Chars(" undefined "), Chars(" a b "),
    Repeat(" ", MaxValueLength - 4) \o Chars("true"),
    Repeat(" ", MaxValueLength - 3) \o Chars("true"),
    Repeat("0", MaxValueLength - 1) \o <<"1">>,
    Repeat("0", MaxValueLength) \o <<"1">>,
    Repeat("a", 2 * MaxValueLength) }

RawValues == SeqsUpTo(RawAlphabet, MaxRawLen) \cup NamedRaw

\* The inputs of a sequence of decode calls.
MaxCalls == 3

CallInputs ==
  { <<>>, <<Pair(Chars("a"), Chars("hello"))>>, <<Pair(Chars("a[b]"), Chars("hello"))>>,
    <<Pair(Chars("__proto__[a]"), Chars("hello"))>>,
    <<Pair(Chars("__proto__[a][c]"), Chars("hello"))>> }

\* Trees for the encoder: a root object with the fields a and b, nested
\* objects with the fields b and 0, arrays of at most MaxArrayLen slots, each
\* slot a leaf or a hole.
MaxArrayLen == 2

Absent == [t |-> "absent"]

TreeLeaves ==
  { NumOf(5), Num(FALSE, Chars("29"), Chars("99")), Bool(TRUE), Null, Undef,
    Str(Chars("x")), Str(Chars("5")) }

ObjectOf(names, f) ==
  Obj(SelectSeq([i \in 1..Len(names) |-> Ent(names[i], f[i])], LAMBDA e : e.v # Absent))

ObjectsOver(names, first, rest) ==
  { ObjectOf(names, f) :
      f \in { g \in [1..Len(names) -> first \cup rest \cup {Absent}] :
                \A i \in 2..Len(names) : g[i] \in rest \cup {Absent} } }

ArraysOver(vals, n) ==
  UNION { { Arr(len, [j \in { i \in 0..(len - 1) : f[i] # Absent } |-> f[j]], <<>>) :
              f \in [0..(len - 1) -> vals \cup {Absent}] } : len \in 0..n }

Subtrees ==
  TreeLeaves
    \cup ObjectsOver(<<Chars("b"), Chars("0")>>, TreeLeaves, TreeLeaves)
    \cup ArraysOver(TreeLeaves, MaxArrayLen)

Trees == ObjectsOver(<<Chars("a"), Chars("b")>>, Subtrees, TreeLeaves)

\* The page: two hook instances, the first with or without defaults; the
\* initial URL; the arguments of setQuery; the entries of the history.
MaxHistory == 3

HookIds == {1, 2}

InitialLocations ==
  { Location(Chars("/p"), <<>>, <<>>),
    Location(Chars("/p"), <<>>, Chars("#h")),
    Location(Chars("/p"), Chars("?p=5&q=x"), <<>>),
    Location(Chars("/o"), Chars("?p=5&q=x"), Chars("#h")),
    Location(Chars("/p"), Chars("?a[b]=7"), <<>>),
    Location(Chars("/o"), Chars("?a[b]=7"), Chars("#h")) }

SomeDefaults ==
  Obj(<<Ent(Chars("p"), NumOf(1)),
        Ent(Chars("a"), Obj(<<Ent(Chars("b"), NumOf(1)), Ent(Chars("c"), NumOf(2))>>))>>)

DefaultValues == { Undef, SomeDefaults }

Queries ==
  { Null, EmptyObj,
    Obj(<<Ent(Chars("p"), NumOf(2))>>),
    Obj(<<Ent(Chars("a"), Obj(<<Ent(Chars("b"), NumOf(7))>>)), Ent(Chars("q"), Str(Chars("x y")))>>) }

\* ------------------------------------------------------------------------
\* Actions
\* ------------------------------------------------------------------------

NoOp == [op |-> "none", hook |-> 0, query |-> Null, replace |-> FALSE]

\* setUrl(window.location.href) in each hook of ids, one after the other.
RECURSIVE SetUrlEach(_, _, _, _)
SetUrlThen(hs, id, ids, loc, out) ==
  SetUrlEach([hs EXCEPT ![id] = out.hook], ids \ {id}, loc, out.proto)

SetUrlFirst(hs, id, ids, loc, proto) ==
  SetUrlThen(hs, id, ids, loc, SetUrl(hs[id], loc, proto))

SetUrlEach(hs, ids, loc, proto) ==
  IF ids = {} THEN [hooks |-> hs, proto |-> proto]
  ELSE SetUrlFirst(hs, CHOOSE i \in ids : \A j \in ids : i <= j, ids, loc, proto)

\* setQuery(newQuery, options) of hook h.
SetQuery(h, query, replace) ==
  /\ hooks[h].status = "mounted"
  /\ lastOp' = [op |-> "setQuery", hook |-> h, query |-> query, replace |-> replace]
  /\ callers' = callers \cup {h}
  /\ IF ~hasWindow
       THEN UNCHANGED <<location, history, position, hooks, objectProto>>
       ELSE /\ replace \/ position < MaxHistory
            /\ \E newUrl \in {NewUrl(hooks[h].pathname, query)} :
                 /\ location' = newUrl
                 /\ history' = IF replace THEN ReplaceState(history, position, newUrl)
                                          ELSE PushState(history, position, newUrl)
                 /\ \E out \in {SetUrlEach(hooks, {h}, newUrl, objectProto)} :
                      /\ hooks' = out.hooks
                      /\ objectProto' = out.proto
            /\ position' = IF replace THEN position ELSE position + 1
  /\ UNCHANGED <<hasWindow, codecVars>>

\* The user goes back or forward: the location is the entry's and popstate
\* is dispatched to the handler of every mounted hook.
PopState(delta) ==
  /\ hasWindow
  /\ position + delta \in 1..Len(history)
  /\ position' = position + delta
  /\ location' = history[position + delta]
  /\ \E out \in {SetUrlEach(hooks, HookIds, history[position + delta], objectProto)} :
       /\ hooks' = out.hooks
       /\ objectProto' = out.proto
  /\ lastOp' = [op |-> "popstate", hook |-> 0, query |-> Null, replace |-> FALSE]
  /\ UNCHANGED <<hasWindow, history, callers, codecVars>>


\* params.forEach((value, key) => { ... }): one pair is decoded.
ForEach ==
  /\ pc = "run"
  /\ done < Len(input)
  /\ LET out == ForEachCallback([obj |-> obj, proto |-> objectProto], input[done + 1]) IN
     /\ obj' = out.heap.obj
     /\ objectProto' = out.heap.proto
     /\ pc' = CASE out.status = "ok" -> "run"
                [] out.status = "throw" -> "thrown"
                [] OTHER -> "unmodelled"
  /\ done' = done + 1
  /\ UNCHANGED <<input, newQuery, calls>>
  /\ UNCHANGED pageVars

\* return obj
Return ==
  /\ pc = "run"
  /\ done = Len(input)
  /\ pc' = "returned"
  /\ UNCHANGED <<input, done, obj, objectProto, newQuery, calls>>
  /\ UNCHANGED pageVars

\* paramsObject is called again, with other params.
NewCall ==
  /\ pc \in {"returned", "thrown"}
  /\ Len(calls) + 1 < MaxCalls
  /\ calls' = Append(calls, [input |-> input, pc |-> pc, obj |-> obj])
  /\ input' \in CallInputs
  /\ done' = 0
  /\ obj' = EmptyObj
  /\ pc' = "run"
  /\ UNCHANGED <<objectProto, newQuery>>
  /\ UNCHANGED pageVars

\* addToParams(newQuery): the pairs of the tree.
AddToParams ==
  /\ pc = "encode"
  /\ input' = addToParams(newQuery, <<>>, <<>>)
  /\ pc' = "run"
  /\ UNCHANGED <<done, obj, objectProto, newQuery, calls>>
  /\ UNCHANGED pageVars

\* ------------------------------------------------------------------------
\* Specifications
\* ------------------------------------------------------------------------

\* No page: the codec is used on its own.
NoPage ==
  /\ hasWindow = FALSE
  /\ location = Location(<<>>, <<>>, <<>>)
  /\ history = <<>>
  /\ position = 0
  /\ hooks = <<>>
  /\ lastOp = NoOp
  /\ callers = {}

InitCall(inputs) ==
  /\ input \in inputs
  /\ done = 0
  /\ obj = EmptyObj
  /\ objectProto = EmptyObj
  /\ pc = "run"
  /\ newQuery = EmptyObj
  /\ calls = <<>>
  /\ NoPage

\* One decode call on up to MaxPairs pairs.
Init == InitCall(SeqsUpTo(Pairs, MaxPairs))
Next == ForEach \/ Return
Spec == Init /\ [][Next]_vars

\* One decode call on one pair <key>=0, the key any string of key characters.
MaxKeyLen == 4
KeyAlphabet == {"a", "0", "[", "]"}
NamedKeys == { Chars("user[profile][name]"), Chars("a[[b]]"), Chars("]a[]b[") }
KeyStrings == SeqsUpTo(KeyAlphabet, MaxKeyLen) \cup NamedKeys
InitKeys == InitCall({ <<Pair(key, Chars("0"))>> : key \in KeyStrings })
SpecKeys == InitKeys /\ [][Next]_vars

\* One decode call on one pair a=<raw value>.
InitInfer == InitCall({ <<Pair(Chars("a"), raw)>> : raw \in RawValues })
SpecInfer == InitInfer /\ [][Next]_vars

\* One decode call on up to MaxKindPairs pairs over KindKeys.
InitKinds == InitCall(SeqsUpTo(KindPairs, MaxKindPairs))
SpecKinds == InitKinds /\ [][Next]_vars

\* Up to MaxCalls decode calls, one after the other.
InitCalls == InitCall(CallInputs)
NextCalls == ForEach \/ Return \/ NewCall
SpecCalls == InitCalls /\ [][NextCalls]_vars

\* A tree is encoded and the pairs are decoded.
InitRoundTrip ==
  /\ newQuery \in Trees
  /\ input = <<>>
  /\ done = 0
  /\ obj = EmptyObj
  /\ objectProto = EmptyObj
  /\ pc = "encode"
  /\ calls = <<>>
  /\ NoPage
NextRoundTrip == AddToParams \/ ForEach \/ Return
SpecRoundTrip == InitRoundTrip /\ [][NextRoundTrip]_vars

\* A page with the two hooks mounted, in a browser or without a window.
InitPage ==
  /\ input = <<>> /\ done = 0 /\ obj = EmptyObj /\ pc = "idle"
  /\ newQuery = EmptyObj /\ calls = <<>>
  /\ hasWindow \in BOOLEAN
  /\ \E initial \in InitialLocations, d \in DefaultValues :
       /\ location = IF hasWindow THEN initial
                                  ELSE Location(<<>>, <<>>, <<>>)
       /\ IF hasWindow
            THEN \E first \in {Mount(d, location, EmptyObj)} :
                   \E second \in {Mount(Undef, location, first.proto)} :
                     /\ hooks = <<first.hook, second.hook>>
                     /\ objectProto = second.proto
            ELSE /\ hooks = <<MountWithoutWindow(d), MountWithoutWindow(Undef)>>
                 /\ objectProto = EmptyObj
  /\ history = IF hasWindow THEN <<location>> ELSE <<>>
  /\ position = IF hasWindow THEN 1 ELSE 0
  /\ lastOp = NoOp
  /\ callers = {}

NextPage ==
  \/ \E h \in HookIds, query \in Queries, replace \in BOOLEAN : SetQuery(h, query, replace)
  \/ \E delta \in {-1, 1} : PopState(delta)

SpecPage == InitPage /\ [][NextPage]_vars

\* Every input of the model stays within the JavaScript the model covers.
WithinModel ==
  /\ pc # "unmodelled"
  /\ \A h \in DOMAIN hooks : hooks[h].status # "unmodelled"

\* ------------------------------------------------------------------------
\* Properties of one decode call (Spec)
\* ------------------------------------------------------------------------

Heap == [obj |-> obj, proto |-> objectProto]

\* The pair the last ForEach step decoded, and its segments.
LastPair == input[done]
LastKeys == parsePath(LastPair.key)

\* The pair the next ForEach step decodes.
NextPair == input[done + 1]
NextKeys == parsePath(NextPair.key)

Without(s, n) == SubSeq(s, 1, n - 1) \o SubSeq(s, n + 1, Len(s))

\* The final segment of the key is an index of 10000 or more.
HugeFinalIndex(pair) ==
  LET keys == parsePath(pair.key) IN
  keys # <<>> /\ IsDigits(keys[Len(keys)]) /\ ~IndexInRange(keys[Len(keys)])

RECURSIVE ArraysWithin(_, _)
ArraysWithin(node, bound) ==
  CASE node.t = "obj" ->
         \A i \in 1..Len(node.ents) : ArraysWithin(node.ents[i].v, bound)
    [] node.t = "arr" ->
         /\ node.len <= bound
         /\ \A j \in DOMAIN node.el : j < bound /\ ArraysWithin(node.el[j], bound)
         /\ \A i \in 1..Len(node.ents) : ArraysWithin(node.ents[i].v, bound)
    [] OTHER -> TRUE

\* C2: the decoder never throws: every call returns an object, also when a
\* key extends a path that an earlier pair set to a scalar.
C2_NeverThrows == pc # "thrown"

\* C3: a pair whose final segment is an index >= 10000 contributes nothing:
\* the returned tree is the tree decoded from the pairs without that pair.
C3_HugeIndexContributesNothing ==
  pc = "returned" =>
    \A n \in 1..Len(input) :
      HugeFinalIndex(input[n]) =>
        obj = paramsObject(Without(input, n), EmptyObj).obj

\* C5: no array of the decoded tree has an element at an index above 9999,
\* whether the index segment is final or intermediate.
C5_ArrayIndexBound == ArraysWithin(obj, MaxArrayIndex)

\* The next pair's path ends at a container that exists already, and the
\* final segment is of the other kind: an index segment for an object, a
\* field segment for an array.
ConflictAt(kind) ==
  /\ pc = "run" /\ done < Len(input)
  /\ NextKeys # <<>>
  /\ LET nav == Navigate(Heap, NextKeys, 1, Loc("obj", <<>>)) IN
     /\ nav.status = "ok"
     /\ nav.heap = Heap
     /\ nav.cur.r = "loc" /\ nav.cur.root = "obj"
     /\ Target(Heap, nav.cur).t = kind
     /\ IsDigits(FinalKey(NextKeys)) <=> (kind = "obj")

ConflictPath == Navigate(Heap, NextKeys, 1, Loc("obj", <<>>)).cur.path

Raw == input[1].value

\* The leaf decoded for the pair.
Leaf == GetOwn(obj, Chars("a"))

UnsignedPart(raw) == IF raw # <<>> /\ Head(raw) \in {"-", "+"} THEN Tail(raw) ELSE raw

\* An optional sign and digits.
IntegerLiteral(raw) == IsDigits(UnsignedPart(raw))

Magnitude(raw) == StripLeadingZeros(UnsignedPart(raw))

\* An optional sign, digits, a point and a fraction that is not zero.
DecimalLiteral(raw) ==
  /\ raw # <<>> /\ Trim(raw) = raw
  /\ ToNumber(raw).k = "fin"
  /\ ToNumber(raw).frac # <<>>

\* C4: an ordinary decimal literal such as 29.99 (finite, with a fractional
\* part, magnitude below the safe-integer bound) decodes to a number leaf.
C4_DecimalsBecomeNumbers ==
  (/\ pc = "returned"
   /\ DecimalLiteral(Raw)
   /\ Len(Raw) <= MaxValueLength
   /\ LeqDigits(ToNumber(Raw).int, MaxSafeInteger))
    => Leaf.t = "num"

SafeIntegerRule(raw) ==
  IF LeqDigits(Magnitude(raw), MaxSafeInteger)
    THEN Leaf = Num(Head(raw) = "-", Magnitude(raw), <<>>)
    ELSE Leaf = Str(raw)

\* C6 as claimed: an integer literal becomes a number exactly when its
\* magnitude is at most 9007199254740991, and is otherwise kept as the same
\* text.
C6_SafeIntegerBound ==
  (pc = "returned" /\ IntegerLiteral(Raw)) => SafeIntegerRule(Raw)

\* C6 as amended: the same, for an integer literal of at most 1000 characters.
C6_SafeIntegerBoundWithinLength ==
  (pc = "returned" /\ IntegerLiteral(Raw) /\ Len(Raw) <= MaxValueLength)
    => SafeIntegerRule(Raw)

\* 9007199254740991 has been decoded to that number.
C6_Witness ==
  /\ pc = "returned"
  /\ Raw = Chars("9007199254740991")
  /\ Leaf = Num(FALSE, Chars("9007199254740991"), <<>>)

\* ------------------------------------------------------------------------
\* Round trip (SpecRoundTrip)
\* ------------------------------------------------------------------------

\* A tree for comparison: the order of an object's fields dropped, the holes
\* of an array filled with undefined.
RECURSIVE Canon(_)
Canon(node) ==
  CASE node.t = "obj" ->
         [t |-> "obj",
          f |-> [k \in { node.ents[i].k : i \in 1..Len(node.ents) } |->
                   Canon(GetOwn(node, k))]]
    [] node.t = "arr" ->
         [t |-> "arr",
          len |-> node.len,
          el |-> [j \in 0..(node.len - 1) |->
                    IF j \in DOMAIN node.el THEN Canon(node.el[j]) ELSE Undef],
          f |-> [k \in { node.ents[i].k : i \in 1..Len(node.ents) } |->
                   Canon(node.ents[EntIndex(node.ents, k)].v)]]
    [] OTHER -> node

\* A field name that reaches the decoder as one field segment: not empty,
\* without brackets, not digit-only, and not the name of a property that
\* objects inherit.
PlainName(k) ==
  /\ k # <<>>
  /\ \A i \in 1..Len(k) : k[i] \notin {"[", "]"}
  /\ ~IsDigits(k)
  /\ k # ProtoKey

\* A leaf the inferencer gives back as it was: a safe integer (not -0), a
\* boolean, or a string that infers to itself.
PlainLeaf(v) ==
  CASE v.t = "num"  -> /\ v.frac = <<>> /\ LeqDigits(v.int, MaxSafeInteger)
                       /\ ~(v.neg /\ v.int = <<"0">>)
    [] v.t = "bool" -> TRUE
    [] v.t = "str"  -> convertValue(v.s) = v
    [] OTHER -> FALSE

\* A subtree that encodes to at least one pair and comes back as it was:
\* objects and arrays are not empty, an array ends in a slot that is present,
\* and its other slots are holes, undefined or such subtrees.
RECURSIVE PlainSubtree(_)
PlainSubtree(v) ==
  CASE v.t = "obj" ->
         /\ v.ents # <<>>
         /\ \A i \in 1..Len(v.ents) : PlainName(v.ents[i].k) /\ PlainSubtree(v.ents[i].v)
    [] v.t = "arr" ->
         /\ v.ents = <<>>
         /\ 0 < v.len /\ v.len <= MaxArrayIndex
         /\ (v.len - 1) \in DOMAIN v.el /\ PlainSubtree(v.el[v.len - 1])
         /\ \A j \in DOMAIN v.el : v.el[j] = Undef \/ PlainSubtree(v.el[j])
    [] OTHER -> PlainLeaf(v)

PlainTree(tree) ==
  /\ tree.t = "obj"
  /\ \A i \in 1..Len(tree.ents) :
       PlainName(tree.ents[i].k) /\ PlainSubtree(tree.ents[i].v)

RoundTripEnded == pc \in {"returned", "thrown"}

Ended ==
  [n \in 1..(Len(calls) + (IF pc \in {"returned", "thrown"} THEN 1 ELSE 0)) |->
     IF n <= Len(calls) THEN calls[n] ELSE [input |-> input, pc |-> pc, obj |-> obj]]

\* C9, first half: two decode calls on the same pairs return equal trees,
\* whatever calls ran before or in between.
C9_Deterministic ==
  \A m, n \in DOMAIN Ended :
    Ended[m].input = Ended[n].input =>
      (Ended[m].pc = Ended[n].pc /\ Ended[m].obj = Ended[n].obj)

\* C9, second half: a decode call changes no state but the tree it returns.
C9_SideEffectFree == objectProto = EmptyObj

\* C9: decode is deterministic and side-effect free.
C9_DeterministicSideEffectFree == C9_Deterministic /\ C9_SideEffectFree

\* ------------------------------------------------------------------------
\* Claims about the hook (SpecPage)
\* ------------------------------------------------------------------------

Fields(object) == { object.ents[i].k : i \in DOMAIN object.ents }

Mounted == { h \in DOMAIN hooks : hooks[h].status = "mounted" }

\* What the decoder makes of the params the hook's query was computed from.
Parsed(h) == paramsObject(hooks[h].searchParams, objectProto).obj

\* C7: the query of a hook with defaults D has exactly the top-level fields
\* of D and of the decoded tree P; a field of P has P's value, whatever D
\* holds under it (a nested default is replaced whole), any other field has
\* D's value; a hook without defaults has the query P.
C7_ShallowMerge ==
  \A h \in Mounted :
    LET D == hooks[h].defaultValue
        P == Parsed(h)
        query == hooks[h].query
    IN IF D = Undef THEN query = P
       ELSE /\ Fields(query) = Fields(D) \cup Fields(P)
            /\ \A f \in Fields(query) :
                 GetOwn(query, f) = IF f \in Fields(P) THEN GetOwn(P, f) ELSE GetOwn(D, f)

\* The defaults hold a: {b: 1, c: 2} and p: 1, the URL is ?a[b]=7: the query
\* holds p: 1 and a: {b: 7}, without c.
C7_Witness ==
  \E h \in Mounted :
    /\ hooks[h].defaultValue = SomeDefaults
    /\ hooks[h].searchParams = <<Pair(Chars("a[b]"), Chars("7"))>>
    /\ hooks[h].query =
         Obj(<<Ent(Chars("p"), NumOf(1)),
               Ent(Chars("a"), Obj(<<Ent(Chars("b"), NumOf(7))>>))>>)

\* C10: after setQuery(null) in a browser, the location has no query string
\* and no parameters, it is the bare path, and the query of the hook that
\* was called is its defaults, or the empty object when it has none.
C10_Clearing ==
  (hasWindow /\ lastOp.op = "setQuery" /\ lastOp.query = Null) =>
    /\ location.search = <<>>
    /\ ParseSearch(location.search) = <<>>
    /\ Href(location) = hooks[lastOp.hook].pathname
    /\ hooks[lastOp.hook].query =
         IF hooks[lastOp.hook].defaultValue = Undef THEN EmptyObj
         ELSE hooks[lastOp.hook].defaultValue

\* setQuery(null) was pushed from a URL with parameters by a hook with
\* defaults, and its query is the defaults.
C10_Witness ==
  /\ hasWindow /\ lastOp.op = "setQuery" /\ lastOp.query = Null /\ ~lastOp.replace
  /\ position > 1
  /\ ParseSearch(history[position - 1].search) # <<>>
  /\ location.search = <<>>
  /\ hooks[lastOp.hook].defaultValue = SomeDefaults
  /\ hooks[lastOp.hook].query = SomeDefaults

\* A step is a setQuery call in a browser, pushed or replaced.
SetQueryStep(replace) ==
  /\ hasWindow
  /\ lastOp'.op = "setQuery" /\ lastOp'.replace = replace

\* C11: a setQuery call without replace, with an object or with null, adds
\* one entry: the entries up to the current one stay, the new URL follows
\* them and is the current entry, so a history without forward entries is
\* one longer.  A call with replace rewrites the current entry: the history
\* is as long as before, the position and the other entries are the same.
C11_HistoryMode ==
  [][/\ SetQueryStep(FALSE) =>
          /\ position' = position + 1
          /\ Len(history') = position + 1
          /\ SubSeq(history', 1, position) = SubSeq(history, 1, position)
          /\ history'[position'] = location'
          /\ position = Len(history) => Len(history') = Len(history) + 1
     /\ SetQueryStep(TRUE) =>
          /\ position' = position
          /\ Len(history') = Len(history)
          /\ \A n \in 1..Len(history) : n # position => history'[n] = history[n]
          /\ history'[position] = location']_vars

\* From a URL with parameters a setQuery call was pushed, and then {p: 2}
\* was set with replace: two entries, the second rewritten.
C11_Witness ==
  /\ hasWindow /\ lastOp.op = "setQuery" /\ lastOp.replace /\ lastOp.query # Null
  /\ Len(history) = 2 /\ position = 2
  /\ history[1].search # <<>>
  /\ history[2] = location
  /\ location.search = Chars("?p=2")

\* The merge of the hook's defaults with the decode of the query string of
\* the current location.
QueryOfLocation(h) ==
  Merge(hooks[h].defaultValue,
        paramsObject(ParseSearch(location.search), objectProto).obj)

\* C12: in a browser, a mounted hook whose setQuery is the only one that has
\* been called has, after every setQuery call and every popstate, the query
\* that merges its defaults with the decode of the location's query string.
C12_UrlSync ==
  \A h \in Mounted :
    (hasWindow /\ callers \subseteq {h}) => hooks[h].query = QueryOfLocation(h)

\* The first hook has set two different URLs and the user went back to the
\* first of them: its query is the one of that URL.
C12_Witness ==
  /\ hasWindow /\ callers = {1} /\ lastOp.op = "popstate"
  /\ 1 \in Mounted
  /\ hooks[1].defaultValue = SomeDefaults
  /\ position = 2 /\ Len(history) = 3
  /\ history[2].search = Chars("?p=2")
  /\ history[3].search # history[2].search
  /\ hooks[1].query = QueryOfLocation(1)
  /\ GetOwn(hooks[1].query, Chars("p")) = NumOf(2)

\* ------------------------------------------------------------------------
\* More properties of one decode call (Spec)
\* ------------------------------------------------------------------------

\* The tree holds the path: own properties of objects and arrays all along.
RECURSIVE HasPath(_, _)
HasPath(node, path) ==
  \/ path = <<>>
  \/ /\ IsContainer(node)
     /\ HasOwn(node, Head(path))
     /\ HasPath(GetOwn(node, Head(path)), Tail(path))

\* The next pair has the path, of one segment at least, of a pair decoded
\* before it.
SamePathAsEarlier ==
  /\ pc = "run" /\ done < Len(input)
  /\ NextKeys # <<>>
  /\ \E m \in 1..done : parsePath(input[m].key) = NextKeys

\* After the step the tree holds the pair's inferred value at its path.
HoldsNextPair ==
  /\ pc' = "run"
  /\ HasPath(obj', NextKeys)
  /\ NodeAt(obj', NextKeys) = convertValue(NextPair.value)

\* C13 as claimed: pairs are decoded in input order, and a pair with the
\* path of an earlier pair leaves its inferred value at that path.
C13_LastPairWins ==
  [][SamePathAsEarlier => /\ done' = done + 1
                          /\ HoldsNextPair]_vars

\* C13 as amended: pairs are decoded in input order, and a pair whose path
\* the tree holds already (an earlier pair was stored there) leaves its
\* inferred value at that path.  (A pair with a digit-only first segment or
\* a final index of 10000 or more is stored neither the first nor the
\* second time.)
C13_LastStoredPairWins ==
  [][SamePathAsEarlier =>
       /\ done' = done + 1
       /\ HasPath(obj, NextKeys) => HoldsNextPair]_vars

\* a[b] was decoded twice, with different values: the tree holds the second.
C13_Witness ==
  /\ done = 2 /\ pc = "run"
  /\ input[1].key = Chars("a[b]") /\ input[2].key = Chars("a[b]")
  /\ input[1].value = Chars("hello") /\ input[2].value = Chars("0")
  /\ NodeAt(obj, <<Chars("a"), Chars("b")>>) = NumOf(0)

\* The prefixes of the next pair's path that end before its final segment.
IntermediateLengths == 1..(Len(NextKeys) - 1)
Prefix(len) == SubSeq(NextKeys, 1, len)

\* No container at the prefix yet: the path leaves the tree at a container
\* (or at the root) above it, which has no own property of the next
\* segment's name.
MissingContainer(len) ==
  \E above \in 0..(len - 1) :
    /\ HasPath(obj, Prefix(above))
    /\ IsContainer(NodeAt(obj, Prefix(above)))
    /\ ~HasOwn(NodeAt(obj, Prefix(above)), NextKeys[above + 1])

\* The own properties of the container `before` other than k are those of
\* `after`, with the same values.
KeepsOthers(before, after, k) ==
  /\ before.t = after.t
  /\ \A e \in { before.ents[i] : i \in DOMAIN before.ents } :
       e.k # k => HasOwn(after, e.k) /\ GetOwn(after, e.k) = e.v
  /\ before.t = "arr" =>
       \A j \in DOMAIN before.el :
         NatToDigits(j) # k => j \in DOMAIN after.el /\ after.el[j] = before.el[j]

\* C15: a pair's walk creates each missing intermediate container in the
\* tree, as an array when the next segment is digit-only and as an object
\* otherwise, and goes through the containers that exist, which keep their
\* other properties: pairs with a common prefix land in the same container.
C15_NestedConstruction ==
  [][(pc = "run" /\ done < Len(input)) =>
       \A len \in IntermediateLengths :
         /\ MissingContainer(len) =>
              /\ pc' = "run"
              /\ HasPath(obj', Prefix(len))
              /\ NodeAt(obj', Prefix(len)).t =
                   IF IsDigits(NextKeys[len + 1]) THEN "arr" ELSE "obj"
         /\ (HasPath(obj, Prefix(len)) /\ IsContainer(NodeAt(obj, Prefix(len)))) =>
              /\ HasPath(obj', Prefix(len))
              /\ KeepsOthers(NodeAt(obj, Prefix(len)), NodeAt(obj', Prefix(len)),
                             NextKeys[len + 1])]_vars

\* The next pair's path ends in an index below 10000.
EndsInSmallIndex ==
  /\ pc = "run" /\ done < Len(input)
  /\ NextKeys # <<>>
  /\ IsDigits(FinalKey(NextKeys))
  /\ Len(StripLeadingZeros(FinalKey(NextKeys))) <= 5
  /\ DigitsToNat(StripLeadingZeros(FinalKey(NextKeys))) < 10000

\* After the step the path ends in a new array that holds the pair's
\* inferred value at the index and nothing else: the lower indexes are
\* absent and the length is the index plus one.
HoldsInNewArray ==
  LET index == DigitsToNat(StripLeadingZeros(FinalKey(NextKeys)))
      above == SubSeq(NextKeys, 1, Len(NextKeys) - 1)
  IN /\ pc' = "run"
     /\ HasPath(obj', above)
     /\ NodeAt(obj', above) =
          Arr(index + 1, (index :> convertValue(NextPair.value)), <<>>)

TreeAfter(m) == paramsObject(SubSeq(input, 1, m), EmptyObj).obj

\* The paths of the containers the keys of the call go through.
ContainerPaths ==
  UNION { { SubSeq(parsePath(input[n].key), 1, len) :
              len \in 1..Len(parsePath(input[n].key)) } : n \in 1..Len(input) }

ContainerKind(tree, path) ==
  IF HasPath(tree, path) /\ IsContainer(NodeAt(tree, path))
    THEN NodeAt(tree, path).t ELSE "none"

\* C14: a path that held an object or an array after some pair of the call
\* never holds a container of the other kind after a later pair.
C14_KindFixedByFirstUse ==
  pc \in {"run", "returned"} =>
    \A path \in ContainerPaths : \A m \in 0..done :
      \/ ContainerKind(TreeAfter(m), path) = "none"
      \/ ContainerKind(obj, path) = "none"
      \/ ContainerKind(obj, path) = ContainerKind(TreeAfter(m), path)

\* ------------------------------------------------------------------------
\* More properties of the scalar inferencer (SpecInfer)
\* ------------------------------------------------------------------------

\* The pair has been decoded.
Inferred == done = 1 /\ pc \in {"run", "returned"}

\* The text between the first and the last character that is not a space.
TextOf(raw) ==
  LET inner == { i \in 1..Len(raw) : raw[i] # " " } IN
  IF inner = {} THEN <<>>
  ELSE SubSeq(raw, CHOOSE i \in inner : \A j \in inner : i <= j,
                   CHOOSE i \in inner : \A j \in inner : i >= j)

\* C17: a raw value of more than 1000 characters is the leaf, as the same
\* string, spaces and all, also when its text is a numeral or a keyword; a
\* value of exactly 1000 characters is inferred: a numeral of a safe integer
\* gives the number, the keyword true between spaces gives the boolean.
C17_LengthBound ==
  Inferred =>
    /\ Len(Raw) > 1000 => Leaf = Str(Raw)
    /\ Len(Raw) = 1000 =>
         /\ (IsDigits(Raw) /\ LeqDigits(StripLeadingZeros(Raw), Chars("9007199254740991")))
              => Leaf = Num(FALSE, StripLeadingZeros(Raw), <<>>)
         /\ TextOf(Raw) = Chars("true") => Leaf = Bool(TRUE)

\* The numeral of 1001 digits 00...01 stays that string.
C17_Witness ==
  /\ Inferred
  /\ Len(Raw) = 1001 /\ IsDigits(Raw)
  /\ Leaf = Str(Raw)

\* C18: a raw value of at most 1000 characters that is not numeric is
\* decided by its trimmed text, matched exactly: true, false, null and
\* undefined give the boolean, null and undefined; empty text gives the empty
\* string; any other text gives the trimmed text as a string.
C18_KeywordsAndStrings ==
  (Inferred /\ Len(Raw) <= 1000
     /\ (TextOf(Raw) = <<>> \/ ToNumber(TextOf(Raw)) = NaN)) =>
    Leaf = CASE TextOf(Raw) = Chars("true") -> Bool(TRUE)
             [] TextOf(Raw) = Chars("false") -> Bool(FALSE)
             [] TextOf(Raw) = Chars("null") -> Null
             [] TextOf(Raw) = Chars("undefined") -> Undef
             [] OTHER -> Str(TextOf(Raw))

\* " true " has been decoded to the boolean true.
C18_Witness ==
  /\ Inferred
  /\ Raw = Chars(" true ")
  /\ Leaf = Bool(TRUE)

\* ------------------------------------------------------------------------
\* Properties of the encoder (SpecRoundTrip)
\* ------------------------------------------------------------------------

\* The fields with an index-like name, by ascending index, and then the
\* other fields as they were inserted.
PropertyOrder(ents) ==
  LET indexed == { i \in 1..Len(ents) : IsArrayIndex(ents[i].k) }
      rank(i) == Cardinality({ j \in indexed :
                                 DigitsToNat(ents[j].k) < DigitsToNat(ents[i].k) }) + 1
  IN [n \in 1..Cardinality(indexed) |-> ents[CHOOSE i \in indexed : rank(i) = n]]
     \o SelectSeq(ents, LAMBDA e : ~IsArrayIndex(e.k))

\* The key of a leaf: the first segment, the later segments in brackets.
KeyUnder(prefix, segment) ==
  IF prefix = <<>> THEN segment ELSE prefix \o <<"[">> \o segment \o <<"]">>

\* The pairs of the leaves of a tree: one pair for each scalar leaf that is
\* neither null nor undefined, none for a slot that is absent; fields in
\* insertion order (inserted) or in property order, array items by
\* ascending index.
RECURSIVE LeafPairs(_, _, _), FieldPairs(_, _, _, _), ItemPairs(_, _, _, _)
LeafPairs(value, prefix, inserted) ==
  CASE value.t \in {"null", "undef"} -> <<>>
    [] value.t = "obj" ->
         FieldPairs(IF inserted THEN value.ents ELSE PropertyOrder(value.ents),
                    1, prefix, inserted)
    [] value.t = "arr" -> ItemPairs(value, 0, prefix, inserted)
    [] OTHER -> <<Pair(prefix, StringOf(value))>>

FieldPairs(ents, n, prefix, inserted) ==
  IF n > Len(ents) THEN <<>>
  ELSE LeafPairs(ents[n].v, KeyUnder(prefix, ents[n].k), inserted)
       \o FieldPairs(ents, n + 1, prefix, inserted)

ItemPairs(value, idx, prefix, inserted) ==
  IF idx >= value.len THEN <<>>
  ELSE (IF idx \in DOMAIN value.el
          THEN LeafPairs(value.el[idx], prefix \o <<"[">> \o NatToDigits(idx) \o <<"]">>,
                         inserted)
          ELSE <<>>)
       \o ItemPairs(value, idx + 1, prefix, inserted)

\* The tree has been encoded.
Encoded == pc = "run" /\ done = 0

Contains(str, sub) ==
  \E at \in 1..(Len(str) - Len(sub) + 1) : SubSeq(str, at, at + Len(sub) - 1) = sub

\* The bracket-notation keys of the pairs of a query.
BracketKeys(query) ==
  LET params == addToParams(query, <<>>, <<>>) IN
  { params[i].key : i \in { j \in 1..Len(params) : Contains(params[j].key, <<"[">>) } }

\* The last event is a setQuery call in a browser with a nested object.
NestedSetQuery ==
  /\ hasWindow /\ lastOp.op = "setQuery"
  /\ lastOp.query # Null /\ BracketKeys(lastOp.query) # {}

\* C20: after setQuery with a nested object the query string of the
\* location holds each bracket-notation key as it is, with [ and ], followed
\* by =, and no percent-encoded bracket.
C20_LiteralBrackets ==
  NestedSetQuery =>
    /\ \A key \in BracketKeys(lastOp.query) : Contains(location.search, key \o <<"=">>)
    /\ ~Contains(location.search, Chars("%5B"))
    /\ ~Contains(location.search, Chars("%5D"))

\* C21: setQuery(q) with an object q in a browser leaves the pathname as it
\* is and makes the query string the encoding of q: its parameters are the
\* pairs of q's leaves, whatever the URL held before, and when q has no pair
\* the location has no query string and no ?.
C21_ReplacesWholeQuery ==
  [][(hasWindow /\ lastOp'.op = "setQuery" /\ lastOp'.query # Null) =>
       /\ location'.pathname = location.pathname
       /\ ParseSearch(location'.search) = LeafPairs(lastOp'.query, <<>>, FALSE)
       /\ IF LeafPairs(lastOp'.query, <<>>, FALSE) = <<>>
            THEN location'.search = <<>>
            ELSE Head(location'.search) = "?" /\ Len(location'.search) > 1]_vars

\* From /o?a[b]=7#h, setQuery({p: 2}) was pushed: the location is /o?p=2.
C21_Witness ==
  /\ hasWindow /\ lastOp.op = "setQuery" /\ ~lastOp.replace
  /\ lastOp.query = Obj(<<Ent(Chars("p"), NumOf(2))>>)
  /\ position = 2
  /\ history[1] = Location(Chars("/o"), Chars("?a[b]=7"), Chars("#h"))
  /\ location.pathname = Chars("/o")
  /\ location.search = Chars("?p=2")

\* C22: without a window every hook is mounted, its query is its defaults,
\* or the empty object without defaults, and a setQuery call, whatever its
\* argument, changes neither a hook nor a location or history.
C22_ServerSideRendering ==
  [][~hasWindow =>
       /\ \A h \in HookIds :
            /\ hooks[h].status = "mounted"
            /\ hooks[h].query = IF hooks[h].defaultValue = Undef THEN EmptyObj
                                ELSE hooks[h].defaultValue
       /\ UNCHANGED <<hasWindow, location, history, position, hooks, objectProto>>]_vars

\* Without a window setQuery was called with an object, and the query of
\* the hook with defaults is the defaults.
C22_Witness ==
  /\ ~hasWindow
  /\ lastOp.op = "setQuery" /\ lastOp.query # Null /\ lastOp.hook = 1
  /\ hooks[1].defaultValue = SomeDefaults
  /\ hooks[1].query = SomeDefaults

(***************************************************************************)
(* The path tokenizer, under SpecKeys.                                     *)
(***************************************************************************)
\* The key the callback has tokenized and the segments parsePath returned.
Key == input[1].key
Segments == parsePath(Key)
Bracket == {"[", "]"}
Tokenized == done = 1

\* C23: for every key string, balanced or not, with or without empty
\* bracket groups, the tokenizer returns a list of segments (the callback
\* goes on to the tree builder), no segment is empty and no segment
\* contains [ or ].
C23_TokenizerTotal ==
  Tokenized =>
    /\ pc \in {"run", "returned"}
    /\ DOMAIN Segments = 1..Len(Segments)
    /\ \A n \in 1..Len(Segments) :
         /\ Segments[n] # <<>>
         /\ \A k \in 1..Len(Segments[n]) : Segments[n][k] \notin Bracket

\* The unbalanced key ]a[]b[ with an empty group was tokenized to a, b.
C23_Witness ==
  /\ Tokenized
  /\ Key = Chars("]a[]b[")
  /\ Segments = <<Chars("a"), Chars("b")>>

\* The maximal bracket-free runs of the key: where they start, where the one
\* starting at s ends, and the start of the n-th run.
RunStarts ==
  { s \in 1..Len(Key) : Key[s] \notin Bracket /\ (s = 1 \/ Key[s - 1] \in Bracket) }
RunEnd(s) ==
  CHOOSE e \in s..Len(Key) :
    /\ \A k \in s..e : Key[k] \notin Bracket
    /\ (e = Len(Key) \/ Key[e + 1] \in Bracket)
RunStart(n) == CHOOSE s \in RunStarts : Cardinality({ t \in RunStarts : t < s }) = n - 1

RECURSIVE Concat(_)
Concat(segments) ==
  IF segments = <<>> THEN <<>> ELSE Head(segments) \o Concat(Tail(segments))

InTextOrder ==
  /\ Len(Segments) = Cardinality(RunStarts)
  /\ \A n \in 1..Len(Segments) :
       Segments[n] = SubSeq(Key, RunStart(n), RunEnd(RunStart(n)))
  /\ Concat(Segments) = SelectSeq(Key, LAMBDA c : c \notin Bracket)
  /\ (Key = Chars("user[profile][name]") =>
        Segments = <<Chars("user"), Chars("profile"), Chars("name")>>)

\* C24 as stated: the segments are the bracket-free runs of the key in the
\* order of the text, their concatenation is the key without its brackets,
\* every key without brackets yields exactly one segment equal to the key,
\* and user[profile][name] yields user, profile, name.
C24_TokenizerResult ==
  Tokenized =>
    /\ InTextOrder
    /\ ((\A k \in 1..Len(Key) : Key[k] \notin Bracket) => Segments = <<Key>>)

\* C24, amended: as above, with the one-segment rule for the non-empty keys
\* without brackets; the empty key yields no segment.
C24_TokenizerResultNonEmpty ==
  Tokenized =>
    /\ InTextOrder
    /\ ((\A k \in 1..Len(Key) : Key[k] \notin Bracket) =>
          Segments = IF Key = <<>> THEN <<>> ELSE <<Key>>)

\* user[profile][name] was tokenized.
C24_Witness ==
  /\ Tokenized
  /\ Key = Chars("user[profile][name]")
  /\ Len(Segments) = 3

RECURSIVE FieldNames(_)
FieldNames(node) ==
  IF ~IsContainer(node) THEN {}
  ELSE { node.ents[i].k : i \in 1..Len(node.ents) }
         \cup UNION { FieldNames(node.ents[i].v) : i \in 1..Len(node.ents) }
         \cup (IF node.t = "arr"
                 THEN UNION { FieldNames(node.el[j]) : j \in DOMAIN node.el }
                 ELSE {})

\* The segments of the keys of the first n pairs.
SegmentsUpTo(n) ==
  UNION { { parsePath(input[m].key)[k] : k \in 1..Len(parsePath(input[m].key)) }
          : m \in 1..n }

\* C26: every field name in the decoded tree is a segment of the key of a
\* pair decoded so far, and a pair whose key has no segment leaves the tree
\* as it was.
C26_FieldsAreSegments ==
  [][/\ FieldNames(obj') \subseteq SegmentsUpTo(done')
     /\ (done' = done + 1 /\ NextKeys = <<>>) => obj' = obj]_vars

\* Scalars of every kind, falsy and truthy.
ScalarSamples ==
  { NumOf(0), Bool(FALSE), Str(<<>>), Null, Undef,
    NumOf(7), Bool(TRUE), Str(Chars("hello")) }

\* The proper prefixes of the next pair's path at which the tree holds a
\* scalar leaf.
ScalarPrefixes ==
  { len \in 1..(Len(NextKeys) - 1) :
      /\ HasPath(obj, SubSeq(NextKeys, 1, len))
      /\ ~IsContainer(NodeAt(obj, SubSeq(NextKeys, 1, len))) }

\* What the callback makes of the next pair with the scalar v at a prefix.
OutcomeWith(len, v) ==
  ForEachCallback([obj |-> PutAt(obj, SubSeq(NextKeys, 1, len), v), proto |-> objectProto],
                  NextPair)

\* C27: when the next pair's key extends through a path at which an earlier
\* pair left a scalar, the callback ends the same way (returns or throws)
\* and with the same tree whatever scalar is there: 0, false, the empty
\* string, null and undefined give what every other scalar gives.
C27_ScalarValueIrrelevant ==
  (pc = "run" /\ done < Len(input)) =>
    \A len \in ScalarPrefixes : \A v \in ScalarSamples :
      /\ OutcomeWith(len, v).status = OutcomeWith(len, NodeAt(obj, SubSeq(NextKeys, 1, len))).status
      /\ OutcomeWith(len, v).heap.obj =
           OutcomeWith(len, NodeAt(obj, SubSeq(NextKeys, 1, len))).heap.obj

\* C28: a pair whose key is one digit-only segment is dropped: the callback
\* returns, the root gets no field and the tree stays as it was.
C28_RootIndexDropped ==
  [][(/\ pc = "run" /\ done < Len(input)
      /\ Len(NextKeys) = 1 /\ IsDigits(NextKeys[1])) =>
       /\ pc' = "run"
       /\ obj' = obj
       /\ objectProto' = objectProto]_vars

\* After a[b]=hello the pair 5=0 was decoded: the tree is {a: {b: "hello"}}.
C28_Witness ==
  /\ done = 2 /\ pc = "run"
  /\ input[1] = Pair(Chars("a[b]"), Chars("hello"))
  /\ LastPair = Pair(Chars("5"), Chars("0"))
  /\ obj = Obj(<<Ent(Chars("a"), Obj(<<Ent(Chars("b"), Str(Chars("hello")))>>))>>)

(***************************************************************************)
(* Several hooks and the hash, under SpecPage.                             *)
(***************************************************************************)
\* C29: in a browser, after a setQuery call of one hook, the query of every
\* mounted hook, the caller's and the other's, merges its defaults with the
\* decode of the location's query string.
C29_EveryInstanceInSync ==
  (hasWindow /\ lastOp.op = "setQuery") =>
    \A h \in Mounted : hooks[h].query = QueryOfLocation(h)

\* C30: a setQuery call in a browser, with an object or null, pushing or
\* replacing, leaves the hash of the location as it was.
C30_HashKept ==
  [][(hasWindow /\ lastOp'.op = "setQuery") => location'.hash = location.hash]_vars

====
